---- MODULE Spec2Model ----
(***************************************************************************)
(* Entity / relationship resolution of kg_from_unstructured_data.          *)
(*                                                                         *)
(* A Python str is modelled as a sequence of one-character strings, so     *)
(* that normalize_name and the difflib similarity ratio are computed       *)
(* character by character, as the code computes them.  A Python dict is a  *)
(* function from its keys (strings) to its values.                         *)
(***************************************************************************)
EXTENDS Integers, Sequences, FiniteSets, TLC

VARIABLES
    batch,                  \* the entity list handed to the first merge_entities call
    entities,               \* merge_entities: the `entities` parameter of the running call
    sim_threshold,          \* merge_entities: `sim_threshold`, a rational [num, den]
    canonical_entities,     \* merge_entities: `canonical_entities`
    resolved_map,           \* merge_entities: `resolved_map` (also remap_relationships' parameter)
    idx,                    \* merge_entities: position of `for ent in entities`
    matched,                \* merge_entities: index of `matched` in canonical_entities, 0 for None
    pass,                   \* 1: first call; 2: the call on the first call's own output
    first_canonical,        \* canonical list returned by the first call
    fin_relationships,      \* finalize_entities_and_relationships: `relationships_copy`
    relationships,          \* remap_relationships: the `relationships` parameter
    rel_idx,                \* remap_relationships: position of `for rel in relationships`
    resolved_relationships, \* remap_relationships: `resolved_relationships`
    seen,                   \* remap_relationships: `seen`
    ref_entities,           \* canonical entities returned by dedupe_entities.finalize_...
    ref_relationships,      \* relationships returned by dedupe_entities.finalize_...
    text,                   \* chunk_text: `text`
    max_chars,              \* chunk_text: `max_chars`
    overlap,                \* chunk_text: `overlap`
    sentences,              \* chunk_text: `sentences`
    sent_idx,               \* chunk_text: position of `for s in sentences`
    cur,                    \* chunk_text: `cur`
    chunks,                 \* chunk_text: `chunks`
    new_chunks,             \* chunk_text: `new_chunks`
    chunk_idx,              \* chunk_text: `i` of `for i, c in enumerate(chunks)`
    sim_a,                  \* SequenceMatcher: first string
    sim_b,                  \* SequenceMatcher: second string
    sim_ab,                 \* SequenceMatcher(None, sim_a, sim_b).ratio()
    sim_ba,                 \* SequenceMatcher(None, sim_b, sim_a).ratio()
    pc                      \* control position

refVars == <<ref_entities, ref_relationships>>

chunkVars == <<text, max_chars, overlap, sentences, sent_idx, cur, chunks, new_chunks,
               chunk_idx>>

simVars == <<sim_a, sim_b, sim_ab, sim_ba>>

extraVars == <<refVars, chunkVars, simVars>>

vars == <<batch, entities, sim_threshold, canonical_entities, resolved_map, idx,
          matched, pass, first_canonical, fin_relationships, relationships,
          rel_idx, resolved_relationships, seen, extraVars, pc>>

mergeVars == <<batch, entities, sim_threshold, canonical_entities, resolved_map,
               idx, matched, pass, first_canonical>>

remapVars == <<relationships, rel_idx, resolved_relationships, seen>>

-----------------------------------------------------------------------------
(* Bounds of the model.                                                    *)

MaxEntities == 4
MaxRels == 3
MaxFinEntities == 3
MaxFinRels == 2
MaxTextLen == 6
MaxNameLen == 3

-----------------------------------------------------------------------------
(* Generic helpers on sequences and dicts.                                 *)

Range(s) == {s[i] : i \in 1..Len(s)}

Put(d, k, v) == [x \in (DOMAIN d) \cup {k} |-> IF x = k THEN v ELSE d[x]]

EmptyDict == [x \in {} |-> 0]

SeqsUpTo(S, n) == UNION {[1..m -> S] : m \in 0..n}

\* the variables of chunk_text, of the ratio comparison and of the reference
\* result, when the specification does not run them
RefIdle == ref_entities = <<>> /\ ref_relationships = <<>>

ChunkIdle ==
    /\ text = <<>>
    /\ max_chars = 1
    /\ overlap = 0
    /\ sentences = <<>>
    /\ sent_idx = 1
    /\ cur = <<>>
    /\ chunks = <<>>
    /\ new_chunks = <<>>
    /\ chunk_idx = 1

SimIdle == sim_a = <<>> /\ sim_b = <<>> /\ sim_ab = <<>> /\ sim_ba = <<>>

-----------------------------------------------------------------------------
(* str methods used by normalize_name.                                     *)

UpperLetters == <<"A","B","C","D","E","F","G","H","I","J","K","L","M",
                  "N","O","P","Q","R","S","T","U","V","W","X","Y","Z">>
LowerLetters == <<"a","b","c","d","e","f","g","h","i","j","k","l","m",
                  "n","o","p","q","r","s","t","u","v","w","x","y","z">>

Whitespace == {" ", "\t", "\n"}

LowerChar(c) ==
    IF \E i \in 1..Len(UpperLetters) : UpperLetters[i] = c
    THEN LowerLetters[CHOOSE i \in 1..Len(UpperLetters) : UpperLetters[i] = c]
    ELSE c

\* str.lower()
StrLower(s) == [i \in 1..Len(s) |-> LowerChar(s[i])]

RECURSIVE LStrip(_)
LStrip(s) == IF s # <<>> /\ Head(s) \in Whitespace THEN LStrip(Tail(s)) ELSE s

RECURSIVE RStrip(_)
RStrip(s) ==
    IF s # <<>> /\ s[Len(s)] \in Whitespace THEN RStrip(SubSeq(s, 1, Len(s) - 1)) ELSE s

\* str.strip()
StrStrip(s) == RStrip(LStrip(s))

\* length of the leading run of non-whitespace characters
RECURSIVE WordLen(_)
WordLen(s) == IF s = <<>> \/ Head(s) \in Whitespace THEN 0 ELSE 1 + WordLen(Tail(s))

\* str.split(): the maximal whitespace-free runs, in order
RECURSIVE StrSplit(_)
StrSplit(s) ==
    LET t == LStrip(s) IN
    IF t = <<>> THEN <<>>
    ELSE <<SubSeq(t, 1, WordLen(t))>> \o StrSplit(SubSeq(t, WordLen(t) + 1, Len(t)))

\* str.rstrip("."): every trailing period removed
RECURSIVE RStripDot(_)
RStripDot(s) ==
    IF s # <<>> /\ s[Len(s)] = "." THEN RStripDot(SubSeq(s, 1, Len(s) - 1)) ELSE s

\* " ".join(parts)
RECURSIVE StrJoin(_)
StrJoin(parts) ==
    IF parts = <<>> THEN <<>>
    ELSE IF Len(parts) = 1 THEN parts[1]
    ELSE parts[1] \o <<" ">> \o StrJoin(Tail(parts))

prefixes == { <<"d","r">>, <<"m","r">>, <<"m","r","s">>, <<"m","s">>,
              <<"p","r","o","f">>, <<"s","i","r">> }

normalize_name(name) ==
    LET parts == StrSplit(StrStrip(StrLower(name))) IN
    StrJoin(IF parts # <<>> /\ RStripDot(parts[1]) \in prefixes THEN Tail(parts) ELSE parts)

-----------------------------------------------------------------------------
(* difflib.SequenceMatcher(None, a, b).ratio(), without junk (strings here *)
(* are far shorter than the 200 characters at which autojunk starts).      *)

\* length of the common run of a and b starting at (i, j), inside a[..ahi], b[..bhi]
RECURSIVE RunLen(_, _, _, _, _, _)
RunLen(a, b, i, j, ahi, bhi) ==
    IF i > ahi \/ j > bhi THEN 0
    ELSE IF a[i] # b[j] THEN 0
    ELSE 1 + RunLen(a, b, i + 1, j + 1, ahi, bhi)

\* find_longest_match: the longest block; of those the earliest in a; of those the
\* earliest in b.  [i, j, size], size 0 when a[alo..ahi] and b[blo..bhi] share nothing.
find_longest_match(a, b, alo, ahi, blo, bhi) ==
    LET cand == {[i |-> i, j |-> j, size |-> RunLen(a, b, i, j, ahi, bhi)] :
                    i \in alo..ahi, j \in blo..bhi}
        best == {c \in cand : \A d \in cand :
                    \/ c.size > d.size
                    \/ c.size = d.size /\ c.i < d.i
                    \/ c.size = d.size /\ c.i = d.i /\ c.j <= d.j}
    IN  IF cand = {} THEN [i |-> alo, j |-> blo, size |-> 0]
        ELSE CHOOSE c \in best : TRUE

\* sum of the sizes of get_matching_blocks(): the longest match, then the same to
\* its left and to its right
RECURSIVE MatchTotal(_, _, _, _, _, _)
MatchTotal(a, b, alo, ahi, blo, bhi) ==
    IF alo > ahi \/ blo > bhi THEN 0
    ELSE LET m == find_longest_match(a, b, alo, ahi, blo, bhi) IN
         IF m.size = 0 THEN 0
         ELSE m.size
              + MatchTotal(a, b, alo, m.i - 1, blo, m.j - 1)
              + MatchTotal(a, b, m.i + m.size, ahi, m.j + m.size, bhi)

\* ratio() as the exact fraction [num, den]: 2.0 * matches / length, 1.0 when both
\* strings are empty
ratio(a, b) ==
    IF Len(a) + Len(b) = 0 THEN [num |-> 1, den |-> 1]
    ELSE [num |-> 2 * MatchTotal(a, b, 1, Len(a), 1, Len(b)), den |-> Len(a) + Len(b)]

\* x >= y on fractions with positive denominators
FracGE(x, y) == x.num * y.den >= y.num * x.den

-----------------------------------------------------------------------------
(* Inputs.  Names and attribute values the batches are drawn from.         *)

Watson     == <<"W","a","t","s","o","n">>
DrWatson   == <<"D","r"," ","W","a","t","s","o","n">>
DrDotWatson == <<"D","r","."," ","W","a","t","s","o","n">>
watsonLow  == <<"w","a","t","s","o","n">>
John       == <<"J","o","h","n">>
Jon        == <<"J","o","n">>

\* An attribute other than id, name and aliases holds a list or a scalar.
ListValue(items) == [kind |-> "list", items |-> items]
ScalarValue(x)   == [kind |-> "scalar", items |-> <<x>>]

\* Entity records without their id (the id is the position in the batch, so ids
\* are pairwise distinct).
EntityPool ==
    { [name |-> Watson],
      [name |-> DrWatson],
      [name |-> John],
      [name |-> Jon, aliases |-> <<DrWatson>>, tags |-> ListValue(<<"b">>)],
      [name |-> watsonLow, tags |-> ListValue(<<"a">>)],
      [name |-> DrDotWatson, tags |-> ListValue(<<"b">>)],
      [name |-> John, tags |-> ScalarValue("c")] }

\* sim_threshold values: the default 0.8, 1.1 (no ratio passes the fuzzy test)
\* and 0.42
ThresholdPool == { [num |-> 8, den |-> 10], [num |-> 11, den |-> 10], [num |-> 42, den |-> 100] }

DefaultThreshold == [num |-> 8, den |-> 10]

WithIds(recs) == [i \in 1..Len(recs) |-> Put(recs[i], "id", i)]

Batches(pool, n) == {WithIds(recs) : recs \in SeqsUpTo(pool, n) \ {<<>>}}

-----------------------------------------------------------------------------
(* merge_entities.                                                         *)

\* canon.get("aliases", [])
Aliases(canon) == IF "aliases" \in DOMAIN canon THEN canon.aliases ELSE <<>>

\* ExactMatch without the comparison of the two normalized names
ExactMatchAliasesOnly(ent_name_norm, canon) ==
    \E a \in 1..Len(Aliases(canon)) : ent_name_norm = normalize_name(Aliases(canon)[a])

\* line 28: name equality, or membership in the normalized aliases
ExactMatch(ent_name_norm, canon) ==
    \/ ent_name_norm = normalize_name(canon.name)
    \/ \E a \in 1..Len(Aliases(canon)) : ent_name_norm = normalize_name(Aliases(canon)[a])

\* lines 33-34: sim >= sim_threshold
FuzzyMatch(ent_name_norm, canon, thr) ==
    FracGE(ratio(ent_name_norm, normalize_name(canon.name)), thr)

CanonMatches(ent_name_norm, canon, thr) ==
    ExactMatch(ent_name_norm, canon) \/ FuzzyMatch(ent_name_norm, canon, thr)

\* the score line 30 or 33 leaves in sim
Score(ent_name_norm, canon) ==
    IF ExactMatch(ent_name_norm, canon) THEN [num |-> 1, den |-> 1]
    ELSE ratio(ent_name_norm, normalize_name(canon.name))

\* best-match-wins: the matching canonical of the highest score, the earliest of those
ScanCanonicalsBest(ent_name_norm, canons, j, thr) ==
    LET hits == {k \in j..Len(canons) : CanonMatches(ent_name_norm, canons[k], thr)} IN
    IF hits = {} THEN 0
    ELSE CHOOSE k \in hits : \A h \in hits :
             /\ FracGE(Score(ent_name_norm, canons[k]), Score(ent_name_norm, canons[h]))
             /\ (FracGE(Score(ent_name_norm, canons[h]), Score(ent_name_norm, canons[k])) => k <= h)

\* lines 24-36: the scan with its two breaks; index of the canonical matched,
\* 0 when the loop ends with matched = None
RECURSIVE ScanCanonicals(_, _, _, _)
ScanCanonicals(ent_name_norm, canons, j, thr) ==
    IF j > Len(canons) THEN 0
    ELSE IF CanonMatches(ent_name_norm, canons[j], thr) THEN j
    ELSE ScanCanonicals(ent_name_norm, canons, j + 1, thr)

\* isinstance(v, list) for the value v of key k
IsList(k, v) ==
    IF k \in {"id", "name"} THEN FALSE
    ELSE IF k = "aliases" THEN TRUE
    ELSE v.kind = "list"

Items(k, v) == IF k = "aliases" THEN v ELSE v.items

MakeList(k, items) == IF k = "aliases" THEN items ELSE ListValue(items)

\* list(set): the elements of S, once each, in an order the run-time picks
Orderings(S) ==
    {s \in [1..Cardinality(S) -> S] : \A i, j \in 1..Cardinality(S) : s[i] = s[j] => i = j}

\* PreserveAliases without the `not in matched["aliases"]` test
PreserveAliasesNoCheck(canon, ent) ==
    LET c == IF "aliases" \notin DOMAIN canon THEN Put(canon, "aliases", <<>>) ELSE canon IN
    IF ent.name # c.name THEN [c EXCEPT !.aliases = Append(@, ent.name)] ELSE c

\* lines 40-45: ensure the aliases list, append the raw name when it is new
PreserveAliases(canon, ent) ==
    LET c == IF "aliases" \notin DOMAIN canon THEN Put(canon, "aliases", <<>>) ELSE canon IN
    IF ent.name # c.name /\ ent.name \notin Range(c.aliases)
    THEN [c EXCEPT !.aliases = Append(@, ent.name)]
    ELSE c

\* a destructive merge: matched[k] = v for every key of the incoming record
MergedValuesOverwrite(canon, k, v) == {v}

\* list concatenation in place of the set union
MergedValuesConcat(canon, k, v) ==
    IF k \notin DOMAIN canon THEN {v}
    ELSE IF IsList(k, canon[k]) /\ IsList(k, v)
         THEN {MakeList(k, Items(k, canon[k]) \o Items(k, v))}
         ELSE {canon[k]}

\* lines 49-52: the values key k of the canonical may hold after the loop body
MergedValues(canon, k, v) ==
    IF k \notin DOMAIN canon THEN {v}
    ELSE IF IsList(k, canon[k]) /\ IsList(k, v)
         THEN {MakeList(k, o) : o \in Orderings(Range(Items(k, canon[k])) \cup Range(Items(k, v)))}
         ELSE {canon[k]}

\* lines 48-52: for k, v in ent.items()
RECURSIVE MergeAttributes(_, _, _)
MergeAttributes(canon, ent, keys) ==
    IF keys = {} THEN {canon}
    ELSE LET k == CHOOSE x \in keys : TRUE IN
         {Put(c, k, v) : c \in MergeAttributes(canon, ent, keys \ {k}),
                         v \in MergedValues(canon, k, ent[k])}

\* a new canonical built from id and name alone
NewCanonExplicit(ent) == [id |-> ent.id, name |-> ent.name, aliases |-> <<>>]

\* lines 59-61: deepcopy(ent) with aliases defaulted
NewCanon(ent) == IF "aliases" \notin DOMAIN ent THEN Put(ent, "aliases", <<>>) ELSE ent

\* key and value exchanged
RecordResolvedSwapped(map, ent, canon) == Put(map, canon.id, ent.id)

\* lines 54 and 63: resolved_map[ent["id"]] = <canonical>["id"]
RecordResolved(map, ent, canon) == Put(map, ent.id, canon.id)

\* lines 19-36: take the next entity and scan the canonical list
ScanMatch ==
    /\ pc = "scan"
    /\ idx <= Len(entities)
    /\ matched' = ScanCanonicals(normalize_name(entities[idx].name),
                                 canonical_entities, 1, sim_threshold)
    /\ pc' = IF matched' # 0 THEN "matched" ELSE "unmatched"
    /\ UNCHANGED <<batch, entities, sim_threshold, canonical_entities, resolved_map,
                   idx, pass, first_canonical, fin_relationships>>
    /\ UNCHANGED remapVars
    /\ UNCHANGED extraVars

\* lines 38-56: merge the entity into the matched canonical
MergeInto ==
    /\ pc = "matched"
    /\ LET ent == entities[idx]
           m == PreserveAliases(canonical_entities[matched], ent)
       IN  \E r \in MergeAttributes(m, ent, DOMAIN ent) :
               /\ canonical_entities' = [canonical_entities EXCEPT ![matched] = r]
               /\ resolved_map' = RecordResolved(resolved_map, ent, r)
    /\ idx' = idx + 1
    /\ matched' = 0
    /\ pc' = "scan"
    /\ UNCHANGED <<batch, entities, sim_threshold, pass, first_canonical, fin_relationships>>
    /\ UNCHANGED remapVars
    /\ UNCHANGED extraVars

\* lines 57-63: the entity becomes a new canonical
NewCanonical ==
    /\ pc = "unmatched"
    /\ LET new_canon == NewCanon(entities[idx]) IN
           /\ canonical_entities' = Append(canonical_entities, new_canon)
           /\ resolved_map' = RecordResolved(resolved_map, entities[idx], new_canon)
    /\ idx' = idx + 1
    /\ pc' = "scan"
    /\ UNCHANGED <<batch, entities, sim_threshold, matched, pass, first_canonical,
                   fin_relationships>>
    /\ UNCHANGED remapVars
    /\ UNCHANGED extraVars

\* line 65: return canonical_entities, resolved_map
MergeReturn ==
    /\ pc = "scan"
    /\ idx > Len(entities)
    /\ pc' = "returned"
    /\ UNCHANGED mergeVars
    /\ UNCHANGED fin_relationships
    /\ UNCHANGED remapVars
    /\ UNCHANGED extraVars

\* lines 13-17: merge_entities called on the canonical list it returned, with the
\* same sim_threshold
MergeAgain ==
    /\ pc = "returned"
    /\ pass = 1
    /\ pass' = 2
    /\ first_canonical' = canonical_entities
    /\ entities' = canonical_entities
    /\ canonical_entities' = <<>>
    /\ resolved_map' = EmptyDict
    /\ idx' = 1
    /\ matched' = 0
    /\ pc' = "scan"
    /\ UNCHANGED <<batch, sim_threshold, fin_relationships>>
    /\ UNCHANGED remapVars
    /\ UNCHANGED extraVars

Init ==
    /\ batch \in Batches(EntityPool, MaxEntities)
    /\ entities = batch
    /\ sim_threshold \in ThresholdPool
    /\ canonical_entities = <<>>
    /\ resolved_map = EmptyDict
    /\ idx = 1
    /\ matched = 0
    /\ pass = 1
    /\ first_canonical = <<>>
    /\ fin_relationships = <<>>
    /\ relationships = <<>>
    /\ rel_idx = 1
    /\ resolved_relationships = <<>>
    /\ seen = {}
    /\ pc = "scan"
    /\ RefIdle /\ ChunkIdle /\ SimIdle

Next == ScanMatch \/ MergeInto \/ NewCanonical \/ MergeReturn \/ MergeAgain

Spec == Init /\ [][Next]_vars

-----------------------------------------------------------------------------
(* remap_relationships.                                                    *)

Rel(s, r, t, e) == [source |-> s, relation |-> r, target |-> t, evidence_span |-> e]

RelPool ==
    { Rel(2, "works_with", 3, "text1"),
      Rel(1, "works_with", 3, "text2"),
      Rel(1, "knows", 3, "text1"),
      Rel(3, "works_with", 1, "text1"),
      Rel(2, "works_with", 3, "text3"),
      [source |-> 3, relation |-> "knows", target |-> 2] }

\* resolved_map arguments: the map of Watson / Dr Watson / John, the identity, a
\* map without entity 3, the empty map
MapPool ==
    { (1 :> 1) @@ (2 :> 1) @@ (3 :> 3),
      (1 :> 1) @@ (2 :> 2) @@ (3 :> 3),
      (1 :> 1) @@ (2 :> 1),
      EmptyDict }

\* resolved_map[key]: KeyError for a missing key
MapGetStrict(map, key) ==
    [raised |-> key \notin DOMAIN map, value |-> IF key \in DOMAIN map THEN map[key] ELSE key]

\* resolved_map.get(key, key): [raised, value]; dict.get raises nothing
MapGet(map, key) ==
    [raised |-> FALSE, value |-> IF key \in DOMAIN map THEN map[key] ELSE key]

\* a key that includes the evidence
rel_key_evidence(src, rel, tgt) ==
    <<src, rel.relation, tgt, IF "evidence_span" \in DOMAIN rel THEN rel.evidence_span ELSE "">>

\* line 75
rel_key(src, rel, tgt) == <<src, rel.relation, tgt>>

\* lines 78-80: deepcopy(rel) with the endpoints replaced
NewRel(rel, src, tgt) == [rel EXCEPT !.source = src, !.target = tgt]

\* lines 72-82, a relationship whose key is new
RemapKeep ==
    /\ pc = "remap"
    /\ rel_idx <= Len(relationships)
    /\ LET rel == relationships[rel_idx]
           src == MapGet(resolved_map, rel.source)
           tgt == MapGet(resolved_map, rel.target)
       IN  IF src.raised \/ tgt.raised
           THEN /\ pc' = "error"
                /\ UNCHANGED remapVars
           ELSE /\ rel_key(src.value, rel, tgt.value) \notin seen
                /\ resolved_relationships' =
                       Append(resolved_relationships, NewRel(rel, src.value, tgt.value))
                /\ seen' = seen \cup {rel_key(src.value, rel, tgt.value)}
                /\ rel_idx' = rel_idx + 1
                /\ UNCHANGED <<relationships, pc>>
    /\ UNCHANGED mergeVars
    /\ UNCHANGED fin_relationships
    /\ UNCHANGED extraVars

\* lines 72-77 and 83-84, a relationship whose key was seen
RemapDuplicate ==
    /\ pc = "remap"
    /\ rel_idx <= Len(relationships)
    /\ LET rel == relationships[rel_idx]
           src == MapGet(resolved_map, rel.source)
           tgt == MapGet(resolved_map, rel.target)
       IN  /\ ~src.raised /\ ~tgt.raised
           /\ rel_key(src.value, rel, tgt.value) \in seen
    /\ rel_idx' = rel_idx + 1
    /\ UNCHANGED <<relationships, resolved_relationships, seen, pc>>
    /\ UNCHANGED mergeVars
    /\ UNCHANGED fin_relationships
    /\ UNCHANGED extraVars

\* line 85
RemapReturn ==
    /\ pc = "remap"
    /\ rel_idx > Len(relationships)
    /\ pc' = "remapped"
    /\ UNCHANGED remapVars
    /\ UNCHANGED mergeVars
    /\ UNCHANGED fin_relationships
    /\ UNCHANGED extraVars

InitRemap ==
    /\ batch = <<>>
    /\ entities = <<>>
    /\ sim_threshold = DefaultThreshold
    /\ canonical_entities = <<>>
    /\ resolved_map \in MapPool
    /\ idx = 1
    /\ matched = 0
    /\ pass = 1
    /\ first_canonical = <<>>
    /\ fin_relationships = <<>>
    /\ relationships \in SeqsUpTo(RelPool, MaxRels)
    /\ rel_idx = 1
    /\ resolved_relationships = <<>>
    /\ seen = {}
    /\ pc = "remap"
    /\ RefIdle /\ ChunkIdle /\ SimIdle

NextRemap == RemapKeep \/ RemapDuplicate \/ RemapReturn

SpecRemap == InitRemap /\ [][NextRemap]_vars

-----------------------------------------------------------------------------
(* finalize_entities_and_relationships.                                    *)

FinEntityPool ==
    { [name |-> Watson],
      [name |-> DrWatson],
      [name |-> John],
      [name |-> Jon, aliases |-> <<DrWatson>>, tags |-> ListValue(<<"b">>)] }

\* 9 is the id of no entity of a batch
FinRelPool ==
    { Rel(2, "works_with", 3, "text1"),
      Rel(1, "works_with", 3, "text2"),
      Rel(9, "works_with", 3, "text1"),
      Rel(1, "knows", 9, "text2"),
      Rel(3, "knows", 2, "text1") }

\* line 95
valid_ids(canons) == {canons[j].id : j \in 1..Len(canons)}

\* the endpoints themselves tested against valid_ids
IsValidRelIdsOnly(rel, map, valid) == rel.source \in valid /\ rel.target \in valid

\* lines 98-100: the condition of the list comprehension
IsValidRel(rel, map, valid) ==
    /\ rel.source \in DOMAIN map
    /\ rel.target \in DOMAIN map
    /\ map[rel.source] \in valid
    /\ map[rel.target] \in valid

\* lines 96-101
RECURSIVE FilterRelationships(_, _, _)
FilterRelationships(rels, map, valid) ==
    IF rels = <<>> THEN <<>>
    ELSE (IF IsValidRel(Head(rels), map, valid) THEN <<Head(rels)>> ELSE <<>>)
         \o FilterRelationships(Tail(rels), map, valid)

\* lines 95-102: merge_entities has returned; filter and call remap_relationships
FilterStep ==
    /\ pc = "returned"
    /\ relationships' = FilterRelationships(fin_relationships, resolved_map,
                                            valid_ids(canonical_entities))
    /\ rel_idx' = 1
    /\ resolved_relationships' = <<>>
    /\ seen' = {}
    /\ pc' = "remap"
    /\ UNCHANGED mergeVars
    /\ UNCHANGED fin_relationships
    /\ UNCHANGED extraVars

\* lines 90-93: merge_entities is called with the default sim_threshold
InitFinalize ==
    /\ batch \in Batches(FinEntityPool, MaxFinEntities)
    /\ entities = batch
    /\ sim_threshold = DefaultThreshold
    /\ canonical_entities = <<>>
    /\ resolved_map = EmptyDict
    /\ idx = 1
    /\ matched = 0
    /\ pass = 1
    /\ first_canonical = <<>>
    /\ fin_relationships \in SeqsUpTo(FinRelPool, MaxFinRels)
    /\ relationships = <<>>
    /\ rel_idx = 1
    /\ resolved_relationships = <<>>
    /\ seen = {}
    /\ pc = "scan"
    /\ RefIdle /\ ChunkIdle /\ SimIdle

NextFinalize ==
    \/ ScanMatch \/ MergeInto \/ NewCanonical \/ MergeReturn
    \/ FilterStep
    \/ RemapKeep \/ RemapDuplicate \/ RemapReturn

SpecFinalize == InitFinalize /\ [][NextFinalize]_vars

-----------------------------------------------------------------------------
(* chunk_text (src/myutils.py; src/src/data_loader.py holds the same code). *)

SentenceEnd == {".", "!", "?"}

\* position of the first sentence-ending character of t, 0 when there is none
RECURSIVE FirstEnd(_, _)
FirstEnd(t, k) ==
    IF k > Len(t) THEN 0
    ELSE IF t[k] \in SentenceEnd THEN k
    ELSE FirstEnd(t, k + 1)

\* re.split(r'(?<=[.!?])', text) with the punctuation dropped from the pieces
RECURSIVE SplitSentencesDropEnd(_)
SplitSentencesDropEnd(t) ==
    LET k == FirstEnd(t, 1) IN
    IF k = 0 THEN <<t>>
    ELSE <<SubSeq(t, 1, k - 1)>> \o SplitSentencesDropEnd(SubSeq(t, k + 1, Len(t)))

\* line 74: re.split(r'(?<=[.!?])', text): a cut after every . ! ? (the last
\* piece is empty when the text ends with one)
RECURSIVE SplitSentences(_)
SplitSentences(t) ==
    LET k == FirstEnd(t, 1) IN
    IF k = 0 THEN <<t>>
    ELSE <<SubSeq(t, 1, k)>> \o SplitSentences(SubSeq(t, k + 1, Len(t)))

\* the test of line 82 without the joining space
FitsNoSpace(c, s, limit) == Len(c) + Len(s) <= limit

\* line 82: len(cur) + len(s) + 1 <= max_chars
Fits(c, s, limit) == Len(c) + Len(s) + 1 <= limit

\* lines 85-86: if cur: chunks.append(cur)
Flushed(list, c) == IF c # <<>> THEN Append(list, c) ELSE list

\* lines 89-91: s[i:i + max_chars] for i in range(0, len(s), max_chars)
RECURSIVE Slices(_, _)
Slices(s, limit) ==
    IF s = <<>> THEN <<>>
    ELSE IF Len(s) <= limit THEN <<s>>
    ELSE <<SubSeq(s, 1, limit)>> \o Slices(SubSeq(s, limit + 1, Len(s)), limit)

\* lines 112-116 without the joining space in the test
RECURSIVE OverlapWordsNoSpace(_, _, _, _)
OverlapWordsNoSpace(words, k, char_count, limit) ==
    IF k = 0 THEN <<>>
    ELSE IF char_count + Len(words[k]) > limit THEN <<>>
    ELSE OverlapWordsNoSpace(words, k - 1, char_count + Len(words[k]) + 1, limit)
             \o <<words[k]>>

\* lines 110-116: the words taken from the end of prev_words, from word k down
RECURSIVE OverlapWords(_, _, _, _)
OverlapWords(words, k, char_count, limit) ==
    IF k = 0 THEN <<>>
    ELSE IF char_count + Len(words[k]) + 1 > limit THEN <<>>
    ELSE OverlapWords(words, k - 1, char_count + Len(words[k]) + 1, limit) \o <<words[k]>>

\* lines 105-119: candidate
Candidate(prev, c, limit) ==
    LET prev_words == StrSplit(prev)
        overlap_text == StrJoin(OverlapWords(prev_words, Len(prev_words), 0, limit))
    IN  StrStrip(overlap_text \o <<" ">> \o c)

\* lines 78-79: s = s.strip()
CurSentence == StrStrip(sentences[sent_idx])

\* lines 80-81: an empty fragment is skipped
ChunkSkipEmpty ==
    /\ pc = "chunk"
    /\ sent_idx <= Len(sentences)
    /\ CurSentence = <<>>
    /\ sent_idx' = sent_idx + 1
    /\ UNCHANGED <<text, max_chars, overlap, sentences, cur, chunks, new_chunks, chunk_idx>>
    /\ UNCHANGED <<mergeVars, fin_relationships, remapVars, refVars, simVars, pc>>

\* lines 82-83: the fragment joins the current chunk
ChunkAccumulate ==
    /\ pc = "chunk"
    /\ sent_idx <= Len(sentences)
    /\ CurSentence # <<>>
    /\ Fits(cur, CurSentence, max_chars)
    /\ cur' = StrStrip(cur \o <<" ">> \o CurSentence)
    /\ sent_idx' = sent_idx + 1
    /\ UNCHANGED <<text, max_chars, overlap, sentences, chunks, new_chunks, chunk_idx>>
    /\ UNCHANGED <<mergeVars, fin_relationships, remapVars, refVars, simVars, pc>>

\* lines 84-86 and 93-94: the current chunk is flushed, the fragment starts the next
ChunkStartNew ==
    /\ pc = "chunk"
    /\ sent_idx <= Len(sentences)
    /\ CurSentence # <<>>
    /\ ~Fits(cur, CurSentence, max_chars)
    /\ Len(CurSentence) <= max_chars
    /\ chunks' = Flushed(chunks, cur)
    /\ cur' = CurSentence
    /\ sent_idx' = sent_idx + 1
    /\ UNCHANGED <<text, max_chars, overlap, sentences, new_chunks, chunk_idx>>
    /\ UNCHANGED <<mergeVars, fin_relationships, remapVars, refVars, simVars, pc>>

\* lines 84-92: the current chunk is flushed, the long fragment is cut in slices
ChunkHardSplit ==
    /\ pc = "chunk"
    /\ sent_idx <= Len(sentences)
    /\ CurSentence # <<>>
    /\ ~Fits(cur, CurSentence, max_chars)
    /\ Len(CurSentence) > max_chars
    /\ chunks' = Flushed(chunks, cur) \o Slices(CurSentence, max_chars)
    /\ cur' = <<>>
    /\ sent_idx' = sent_idx + 1
    /\ UNCHANGED <<text, max_chars, overlap, sentences, new_chunks, chunk_idx>>
    /\ UNCHANGED <<mergeVars, fin_relationships, remapVars, refVars, simVars, pc>>

\* lines 95-99: the last chunk is flushed; the overlap pass runs when overlap is
\* not 0 and there is more than one chunk
ChunkFlush ==
    /\ pc = "chunk"
    /\ sent_idx > Len(sentences)
    /\ chunks' = Flushed(chunks, cur)
    /\ pc' = IF overlap # 0 /\ Len(chunks') > 1 THEN "overlap" ELSE "chunked"
    /\ new_chunks' = <<>>
    /\ chunk_idx' = 1
    /\ UNCHANGED <<text, max_chars, overlap, sentences, sent_idx, cur>>
    /\ UNCHANGED <<mergeVars, fin_relationships, remapVars, refVars, simVars>>

\* lines 102-104: the first chunk is copied
OverlapFirst ==
    /\ pc = "overlap"
    /\ chunk_idx = 1
    /\ new_chunks' = Append(new_chunks, chunks[1])
    /\ chunk_idx' = 2
    /\ UNCHANGED <<text, max_chars, overlap, sentences, sent_idx, cur, chunks>>
    /\ UNCHANGED <<mergeVars, fin_relationships, remapVars, refVars, simVars, pc>>

\* lines 105-120: a later chunk gets words of the previous output chunk in front
OverlapPrepend ==
    /\ pc = "overlap"
    /\ chunk_idx > 1
    /\ chunk_idx <= Len(chunks)
    /\ new_chunks' = Append(new_chunks,
                            Candidate(new_chunks[Len(new_chunks)], chunks[chunk_idx], overlap))
    /\ chunk_idx' = chunk_idx + 1
    /\ UNCHANGED <<text, max_chars, overlap, sentences, sent_idx, cur, chunks>>
    /\ UNCHANGED <<mergeVars, fin_relationships, remapVars, refVars, simVars, pc>>

\* lines 121-123: chunks = new_chunks; return chunks
OverlapReturn ==
    /\ pc = "overlap"
    /\ chunk_idx > Len(chunks)
    /\ chunks' = new_chunks
    /\ pc' = "chunked"
    /\ UNCHANGED <<text, max_chars, overlap, sentences, sent_idx, cur, new_chunks, chunk_idx>>
    /\ UNCHANGED <<mergeVars, fin_relationships, remapVars, refVars, simVars>>

ChunkAlphabet == {"a", ".", " "}

ExampleText == <<"A", ".", " ", "B", ".", " ", "C", ".">>

Texts == SeqsUpTo(ChunkAlphabet, MaxTextLen) \cup {ExampleText}

MaxCharsPool == {1, 2, 3, 4}

OverlapPool == {0, 2, 4}

\* merge_entities, remap_relationships and finalize are not running
ResolutionIdle ==
    /\ batch = <<>>
    /\ entities = <<>>
    /\ sim_threshold = DefaultThreshold
    /\ canonical_entities = <<>>
    /\ resolved_map = EmptyDict
    /\ idx = 1
    /\ matched = 0
    /\ pass = 1
    /\ first_canonical = <<>>
    /\ fin_relationships = <<>>
    /\ relationships = <<>>
    /\ rel_idx = 1
    /\ resolved_relationships = <<>>
    /\ seen = {}

\* lines 66-76: the arguments pass the checks, the text is split
InitChunk ==
    /\ text \in Texts
    /\ max_chars \in MaxCharsPool
    /\ overlap \in OverlapPool
    /\ sentences = SplitSentences(text)
    /\ sent_idx = 1
    /\ cur = <<>>
    /\ chunks = <<>>
    /\ new_chunks = <<>>
    /\ chunk_idx = 1
    /\ ResolutionIdle /\ RefIdle /\ SimIdle
    /\ pc = "chunk"

NextChunk ==
    \/ ChunkSkipEmpty \/ ChunkAccumulate \/ ChunkStartNew \/ ChunkHardSplit \/ ChunkFlush
    \/ OverlapFirst \/ OverlapPrepend \/ OverlapReturn

SpecChunk == InitChunk /\ [][NextChunk]_vars

-----------------------------------------------------------------------------
(* Properties of merge_entities, checked under Spec.                       *)

Ids(ents) == {ents[i].id : i \in 1..Len(ents)}

NoOwnAliases(ents) == \A i \in 1..Len(ents) : "aliases" \notin DOMAIN ents[i]

SameNormSameCanonical ==
    \A i, j \in 1..Len(entities) :
        normalize_name(entities[i].name) = normalize_name(entities[j].name)
            => resolved_map[entities[i].id] = resolved_map[entities[j].id]

\* C1 as stated: when a merge_entities call on a batch (records may carry their
\* own aliases) has returned, any two input entities with equal normalized names
\* are mapped to the same canonical id, whatever the threshold.
C1_EqualNormAlwaysMerged ==
    (pc = "returned" /\ pass = 1) => SameNormSameCanonical

\* C1 amended: the same, for batches in which no record carries an aliases list.
C1_EqualNormMergedNoOwnAliases ==
    (pc = "returned" /\ NoOwnAliases(entities)) => SameNormSameCanonical

\* two entities of different raw names and one normalized name went through a
\* call whose threshold no ratio reaches
C1_Witness ==
    /\ pc = "returned"
    /\ NoOwnAliases(entities)
    /\ sim_threshold.num > sim_threshold.den
    /\ \E i, j \in 1..Len(entities) :
           /\ entities[i].name # entities[j].name
           /\ normalize_name(entities[i].name) = normalize_name(entities[j].name)
    /\ Len(canonical_entities) >= 2

\* C2: when merge_entities has returned, the keys of resolved_map are exactly the
\* input ids, every value is a canonical id, every canonical id is a value, and
\* every canonical id maps to itself.
C2_ResolvedMapShape ==
    pc = "returned" =>
        /\ DOMAIN resolved_map = Ids(entities)
        /\ \A id \in DOMAIN resolved_map : resolved_map[id] \in Ids(canonical_entities)
        /\ \A c \in Ids(canonical_entities) : \E id \in DOMAIN resolved_map : resolved_map[id] = c
        /\ \A c \in Ids(canonical_entities) : c \in DOMAIN resolved_map /\ resolved_map[c] = c
        /\ Cardinality(Ids(canonical_entities)) = Len(canonical_entities)

\* a call that merged some entities and kept at least two canonicals
C2_Witness ==
    /\ pc = "returned"
    /\ pass = 1
    /\ Len(canonical_entities) >= 2
    /\ Len(canonical_entities) < Len(entities)
    /\ \E id \in DOMAIN resolved_map : resolved_map[id] # id

EntNorm == normalize_name(entities[idx].name)

\* C3: the entity is routed to the first canonical, in creation order, whose
\* normalized name or a normalized alias equals its normalized name or whose
\* similarity reaches the threshold, whatever later canonicals score; it becomes
\* a new canonical only if no canonical matches; and it is mapped accordingly.
C3_FirstMatchWins ==
    /\ [](pc = "matched" =>
            /\ matched \in 1..Len(canonical_entities)
            /\ CanonMatches(EntNorm, canonical_entities[matched], sim_threshold)
            /\ \A k \in 1..(matched - 1) :
                   ~CanonMatches(EntNorm, canonical_entities[k], sim_threshold))
    /\ [](pc = "unmatched" =>
            \A k \in 1..Len(canonical_entities) :
                ~CanonMatches(EntNorm, canonical_entities[k], sim_threshold))
    /\ [][pc = "matched" =>
            /\ Len(canonical_entities') = Len(canonical_entities)
            /\ resolved_map'[entities[idx].id] = canonical_entities[matched].id]_vars
    /\ [][pc = "unmatched" =>
            /\ Len(canonical_entities') = Len(canonical_entities) + 1
            /\ canonical_entities'[Len(canonical_entities')].id = entities[idx].id
            /\ resolved_map'[entities[idx].id] = entities[idx].id]_vars

\* the entity is routed to a canonical although a later canonical has a strictly
\* higher similarity
C3_Witness ==
    /\ pc = "matched"
    /\ \E k \in (matched + 1)..Len(canonical_entities) :
           /\ ~FracGE(ratio(EntNorm, normalize_name(canonical_entities[matched].name)),
                      ratio(EntNorm, normalize_name(canonical_entities[k].name)))
           /\ FuzzyMatch(EntNorm, canonical_entities[k], sim_threshold)

\* index of the first input entity routed to canonical slot j
FirstRouted(j) ==
    CHOOSE i \in 1..Len(entities) :
        /\ entities[i].id \in DOMAIN resolved_map
        /\ resolved_map[entities[i].id] = canonical_entities[j].id
        /\ \A h \in 1..(i - 1) :
               entities[h].id \in DOMAIN resolved_map
                   => resolved_map[entities[h].id] # canonical_entities[j].id

\* C4: within a pass the canonical list only grows at its end, no canonical is
\* removed or moved, and each canonical keeps the id and name of the first input
\* entity routed to its slot.
C4_CanonicalsAppendOnly ==
    /\ [][pass' = pass =>
            /\ Len(canonical_entities') >= Len(canonical_entities)
            /\ \A j \in 1..Len(canonical_entities) :
                   /\ canonical_entities'[j].id = canonical_entities[j].id
                   /\ canonical_entities'[j].name = canonical_entities[j].name]_vars
    /\ [](\A j \in 1..Len(canonical_entities) :
            /\ \E i \in 1..Len(entities) :
                   /\ entities[i].id \in DOMAIN resolved_map
                   /\ resolved_map[entities[i].id] = canonical_entities[j].id
            /\ entities[FirstRouted(j)].id = canonical_entities[j].id
            /\ entities[FirstRouted(j)].name = canonical_entities[j].name)

\* an entity of another name, carrying attributes, was merged into a canonical
C4_Witness ==
    /\ pass = 1
    /\ \E i \in 1..Len(entities) : \E j \in 1..Len(canonical_entities) :
           /\ entities[i].id \in DOMAIN resolved_map
           /\ resolved_map[entities[i].id] = canonical_entities[j].id
           /\ entities[i].id # canonical_entities[j].id
           /\ entities[i].name # canonical_entities[j].name
           /\ "tags" \in DOMAIN entities[i]
           /\ "aliases" \in DOMAIN entities[i]

DupFree(seq) == \A i, j \in 1..Len(seq) : seq[i] = seq[j] => i = j

IsPrefix(a, b) == Len(a) <= Len(b) /\ SubSeq(b, 1, Len(a)) = a

Occurrences(seq, x) == Cardinality({i \in 1..Len(seq) : seq[i] = x})

AliasesDupFree ==
    \A j \in 1..Len(canonical_entities) : DupFree(canonical_entities[j].aliases)

\* every raw name merged into a canonical and different from its name is among
\* its aliases exactly once
MergedNamesAreAliases ==
    \A i \in 1..Len(entities) : \A j \in 1..Len(canonical_entities) :
        (/\ resolved_map[entities[i].id] = canonical_entities[j].id
         /\ entities[i].name # canonical_entities[j].name)
            => Occurrences(canonical_entities[j].aliases, entities[i].name) = 1

\* Watson, Dr Watson, John at threshold 0.8
WatsonExample ==
    (/\ pc = "returned"
     /\ pass = 1
     /\ batch = WithIds(<<[name |-> Watson], [name |-> DrWatson], [name |-> John]>>)
     /\ sim_threshold = DefaultThreshold)
        => canonical_entities =
               << [id |-> 1, name |-> Watson, aliases |-> <<DrWatson>>],
                  [id |-> 3, name |-> John, aliases |-> <<>>] >>

\* C5 as stated: for every batch (records may carry their own aliases), after
\* every merge step each canonical's aliases are duplicate-free and append-only
\* (the aliases already present stay where they are, new ones come after them),
\* at the end they hold each merged raw name that differs from the canonical's
\* name exactly once, and the Watson example gives ["Dr Watson"] and [].
C5_AliasesAppendOnly ==
    /\ []AliasesDupFree
    /\ [][pass' = pass =>
            \A j \in 1..Len(canonical_entities) :
                IsPrefix(canonical_entities[j].aliases, canonical_entities'[j].aliases)]_vars
    /\ [](pc = "returned" => MergedNamesAreAliases)
    /\ []WatsonExample

\* C5 amended: the same, with append-only claimed for the merge of a record that
\* carries no aliases list of its own; then the list stays as it is or gains the
\* record's raw name at its end.
C5_AliasesAppendOnlyNoOwnAliases ==
    /\ []AliasesDupFree
    /\ [][(pc = "matched" /\ "aliases" \notin DOMAIN entities[idx]) =>
            /\ \A j \in 1..Len(canonical_entities) :
                   IsPrefix(canonical_entities[j].aliases, canonical_entities'[j].aliases)
            /\ canonical_entities'[matched].aliases \in
                   { canonical_entities[matched].aliases,
                     Append(canonical_entities[matched].aliases, entities[idx].name) }]_vars
    /\ [][pc # "matched" /\ pass' = pass =>
            \A j \in 1..Len(canonical_entities) :
                canonical_entities'[j].aliases = canonical_entities[j].aliases]_vars
    /\ [](pc = "returned" => MergedNamesAreAliases)
    /\ []WatsonExample

\* a canonical gathered two raw names from records without aliases, and a third
\* record of an alias already present was merged into it
C5_Witness ==
    /\ pc = "returned"
    /\ pass = 1
    /\ NoOwnAliases(entities)
    /\ \E j \in 1..Len(canonical_entities) :
           /\ Len(canonical_entities[j].aliases) = 2
           /\ Cardinality({i \in 1..Len(entities) :
                  resolved_map[entities[i].id] = canonical_entities[j].id}) = 4

\* C6: merging an incoming record into a canonical copies every key the canonical
\* lacks, turns a key that holds a list on both sides into the set union of the
\* two lists, and leaves every other key of the canonical as it was (the aliases
\* are compared after the alias step of lines 40-45); no other canonical changes.
C6_AttributeMergeNonDestructive ==
    [][pc = "matched" =>
        LET ent == entities[idx]
            old == canonical_entities[matched]
            new == canonical_entities'[matched]
            before(k) == IF k = "aliases" THEN PreserveAliases(old, ent).aliases ELSE old[k]
        IN  /\ DOMAIN new = (DOMAIN old) \cup (DOMAIN ent)
            /\ \A k \in DOMAIN new :
                   IF k \notin DOMAIN old THEN new[k] = ent[k]
                   ELSE IF k \in DOMAIN ent /\ IsList(k, old[k]) /\ IsList(k, ent[k])
                        THEN /\ IsList(k, new[k])
                             /\ Range(Items(k, new[k])) =
                                    Range(Items(k, before(k))) \cup Range(Items(k, ent[k]))
                             /\ Len(Items(k, new[k])) = Cardinality(Range(Items(k, new[k])))
                        ELSE new[k] = before(k)
            /\ \A j \in 1..Len(canonical_entities) :
                   j # matched => canonical_entities'[j] = canonical_entities[j]
            /\ Len(canonical_entities') = Len(canonical_entities)]_vars

\* one canonical shows the three cases: its scalar tags survived the merge of a
\* record with a tags list; another holds the union of two tags lists; a third
\* got its tags from a merged record
C6_Witness ==
    /\ pass = 1
    /\ \E j \in 1..Len(canonical_entities) :
           /\ "tags" \in DOMAIN canonical_entities[j]
           /\ canonical_entities[j].tags.kind = "list"
           /\ Len(canonical_entities[j].tags.items) = 2
    /\ \E j \in 1..Len(canonical_entities) : \E i \in 1..Len(entities) :
           /\ "tags" \in DOMAIN canonical_entities[j]
           /\ canonical_entities[j].tags.kind = "scalar"
           /\ entities[i].id \in DOMAIN resolved_map
           /\ resolved_map[entities[i].id] = canonical_entities[j].id
           /\ "tags" \in DOMAIN entities[i]
           /\ entities[i].tags.kind = "list"

IdentityOn(ids) == [id \in ids |-> id]

SecondPassSame ==
    /\ canonical_entities = first_canonical
    /\ resolved_map = IdentityOn(Ids(first_canonical))

\* C7 as stated: for every batch, merge_entities on the canonical list it
\* returned, with the same threshold, returns the same canonical entities in the
\* same order and the identity map.
C7_Idempotent ==
    (pc = "returned" /\ pass = 2) => SecondPassSame

\* C7 amended: the same, for batches in which no record carries an aliases list.
C7_IdempotentNoOwnAliases ==
    (pc = "returned" /\ pass = 2 /\ NoOwnAliases(batch)) => SecondPassSame

\* the second call returned, on the output of a first call that had merged
\* entities into one of several canonicals
C7_Witness ==
    /\ pc = "returned"
    /\ pass = 2
    /\ NoOwnAliases(batch)
    /\ Len(first_canonical) >= 2
    /\ Len(first_canonical) < Len(batch)
    /\ \E j \in 1..Len(first_canonical) : first_canonical[j].aliases # <<>>

-----------------------------------------------------------------------------
(* Properties of remap_relationships (under SpecRemap) and of              *)
(* finalize_entities_and_relationships (under SpecFinalize).               *)

\* an endpoint seen through the map: its image, or itself when it is no key
Through(id) == IF id \in DOMAIN resolved_map THEN resolved_map[id] ELSE id

InputKey(i) ==
    <<Through(relationships[i].source), relationships[i].relation,
      Through(relationships[i].target)>>

OutputKey(n) ==
    <<resolved_relationships[n].source, resolved_relationships[n].relation,
      resolved_relationships[n].target>>

\* index of the first input relationship of the given key
FirstWithKey(key) ==
    CHOOSE i \in 1..Len(relationships) :
        InputKey(i) = key /\ \A h \in 1..(i - 1) : InputKey(h) # key

\* C8: the output of remap_relationships holds exactly one relationship per key
\* (mapped source, relation, mapped target) of the input, each with the
\* evidence_span of the first input relationship of its key, in the order in
\* which the keys first occur in the input.
C8_DedupByKey ==
    pc = "remapped" =>
        /\ {OutputKey(n) : n \in 1..Len(resolved_relationships)}
               = {InputKey(i) : i \in 1..Len(relationships)}
        /\ \A n, m \in 1..Len(resolved_relationships) : OutputKey(n) = OutputKey(m) => n = m
        /\ \A n \in 1..Len(resolved_relationships) :
               LET first == relationships[FirstWithKey(OutputKey(n))] IN
               /\ DOMAIN resolved_relationships[n] = DOMAIN first
               /\ "evidence_span" \in DOMAIN first
                      => resolved_relationships[n].evidence_span = first.evidence_span
        /\ \A n, m \in 1..Len(resolved_relationships) :
               n < m => FirstWithKey(OutputKey(n)) < FirstWithKey(OutputKey(m))

\* three relationships, the third a duplicate of the first by key with another
\* evidence_span, the second of another key
C8_Witness ==
    /\ pc = "remapped"
    /\ Len(relationships) >= 3
    /\ Len(resolved_relationships) = 2
    /\ InputKey(1) = InputKey(3)
    /\ InputKey(1) # InputKey(2)
    /\ relationships[1].source # relationships[3].source
    /\ relationships[1].evidence_span # relationships[3].evidence_span

\* the filter of lines 96-101, in the words of the claim: a relationship goes
\* unless both endpoints are keys of the map and map to canonical ids
KeptByFilter(rel) ==
    ~(\/ rel.source \notin DOMAIN resolved_map
      \/ rel.target \notin DOMAIN resolved_map
      \/ resolved_map[rel.source] \notin Ids(canonical_entities)
      \/ resolved_map[rel.target] \notin Ids(canonical_entities))

\* C9: every relationship finalize returns joins ids of returned canonical
\* entities; the filter removes an input relationship exactly when an endpoint
\* is no key of the map or maps to no canonical id; and every input relationship
\* between two input entity ids is represented in the output by a relationship
\* of key (map[source], relation, map[target]).
C9_FinalizeFilter ==
    /\ pc \in {"remap", "remapped"} =>
           relationships = SelectSeq(fin_relationships, KeptByFilter)
    /\ pc = "remapped" =>
        /\ \A n \in 1..Len(resolved_relationships) :
               /\ resolved_relationships[n].source \in Ids(canonical_entities)
               /\ resolved_relationships[n].target \in Ids(canonical_entities)
        /\ \A i \in 1..Len(fin_relationships) :
               (/\ fin_relationships[i].source \in Ids(batch)
                /\ fin_relationships[i].target \in Ids(batch))
                   => \E n \in 1..Len(resolved_relationships) :
                          OutputKey(n) = <<resolved_map[fin_relationships[i].source],
                                           fin_relationships[i].relation,
                                           resolved_map[fin_relationships[i].target]>>

\* finalize returned: one input relationship was filtered out, another, whose
\* source was merged into another canonical, was kept and remapped
C9_Witness ==
    /\ pc = "remapped"
    /\ Len(relationships) < Len(fin_relationships)
    /\ \E i \in 1..Len(fin_relationships) :
           /\ fin_relationships[i].source \in DOMAIN resolved_map
           /\ fin_relationships[i].target \in DOMAIN resolved_map
           /\ resolved_map[fin_relationships[i].source] # fin_relationships[i].source
    /\ resolved_relationships # <<>>

\* C10: remap_relationships raises nothing, and every relationship it has gone
\* through is in the output with each endpoint that is no key of resolved_map
\* unchanged (and each endpoint that is a key replaced by its image).
C10_MissingEntryTolerated ==
    /\ pc # "error"
    /\ pc \in {"remap", "remapped"} =>
        \A i \in 1..(rel_idx - 1) : \E n \in 1..Len(resolved_relationships) :
            /\ resolved_relationships[n].relation = relationships[i].relation
            /\ resolved_relationships[n].source =
                   (IF relationships[i].source \in DOMAIN resolved_map
                    THEN resolved_map[relationships[i].source]
                    ELSE relationships[i].source)
            /\ resolved_relationships[n].target =
                   (IF relationships[i].target \in DOMAIN resolved_map
                    THEN resolved_map[relationships[i].target]
                    ELSE relationships[i].target)

\* the pass went on to the end after a relationship with an endpoint missing
\* from a non-empty map
C10_Witness ==
    /\ pc = "remapped"
    /\ resolved_map # EmptyDict
    /\ Len(relationships) >= 2
    /\ relationships[1].target \notin DOMAIN resolved_map
    /\ relationships[1].source \in DOMAIN resolved_map
    /\ resolved_map[relationships[1].source] # relationships[1].source
    /\ Len(resolved_relationships) >= 2
    /\ resolved_relationships[1].target = relationships[1].target

-----------------------------------------------------------------------------
(* Properties of chunk_text, checked under SpecChunk. *)

ChunksWithin == \A k \in 1..Len(chunks) : Len(chunks[k]) <= max_chars

RECURSIVE StrConcat(_)
StrConcat(list) ==
    IF list = <<>> THEN <<>> ELSE Head(list) \o StrConcat(Tail(list))

\* the step that handles a fragment longer than max_chars: the chunk list grows
\* by the accumulated partial chunk (when there is one) and then by slices of
\* the fragment, all of length max_chars except possibly the last
HardSplitEmitted ==
    LET s      == CurSentence
        before == IF cur # <<>> THEN Append(chunks, cur) ELSE chunks
        n      == Len(before)
        m      == Len(chunks') - n
    IN  /\ m >= 1
        /\ SubSeq(chunks', 1, n) = before
        /\ \A k \in 1..(m - 1) : Len(chunks'[n + k]) = max_chars
        /\ Len(chunks'[n + m]) \in 1..max_chars
        /\ StrConcat(SubSeq(chunks', n + 1, n + m)) = s
        /\ cur' = <<>>

Fragments ==
    SelectSeq([i \in 1..Len(sentences) |-> StrStrip(sentences[i])], LAMBDA s : s # <<>>)

ExampleCall == text = ExampleText /\ max_chars = 4 /\ overlap = 0

ExampleFragments == << <<"A", ".">>, <<"B", ".">>, <<"C", ".">> >>

\* C12 as stated: chunk_text("A. B. C.", max_chars=4, overlap=0) has the
\* fragments "A.", "B.", "C." and returns ["A. B.", "C."].
C12_ExamplePacked ==
    ExampleCall =>
        /\ Fragments = ExampleFragments
        /\ pc = "chunked" => chunks = << <<"A", ".", " ", "B", ".">>, <<"C", ".">> >>

\* C12: chunk_text("A. B. C.", max_chars=4, overlap=0) has the fragments "A.",
\* "B.", "C." and returns them one per chunk, ["A.", "B.", "C."]: joining two
\* of them takes 2 + 2 + 1 = 5 > 4 characters.
C12_ExampleOnePerChunk ==
    ExampleCall =>
        /\ Fragments = ExampleFragments
        /\ pc = "chunked" => chunks = ExampleFragments

C12_Witness == ExampleCall /\ pc = "chunked" /\ Len(chunks) = 3 /\ sent_idx = 5

\* the characters the last k words take, one joining space counted per word
RECURSIVE WordsCost(_, _)
WordsCost(words, k) ==
    IF k = 0 THEN 0
    ELSE Len(words[Len(words) - k + 1]) + 1 + WordsCost(words, k - 1)

\* the longest run of whole words at the end of `words` that costs at most limit
MaximalSuffix(words, limit) ==
    LET n == Len(words)
        K == CHOOSE k \in 0..n :
                 /\ WordsCost(words, k) <= limit
                 /\ k = n \/ WordsCost(words, k + 1) > limit
    IN  SubSeq(words, n - K + 1, n)

\* the words put in front of chunk number k of the overlap pass
PrependedWords(k) == MaximalSuffix(StrSplit(new_chunks[k - 1]), overlap)

\* C13: in the overlap pass (overlap > 0, more than one chunk) the first chunk
\* is returned unmodified; every later chunk gets in front of it, joined by
\* single spaces, the maximal suffix of whole whitespace-delimited words of the
\* previous output chunk whose lengths plus one space each sum to at most
\* overlap; that text has at most overlap characters.
C13_OverlapWholeWords ==
    /\ [](pc = "overlap" => overlap > 0 /\ Len(chunks) > 1)
    /\ [](pc = "overlap" /\ chunk_idx > 1 => new_chunks[1] = chunks[1])
    /\ [][pc = "overlap" /\ pc' = "chunked" =>
              /\ chunks' = new_chunks
              /\ Len(chunks') = Len(chunks)
              /\ chunks'[1] = chunks[1]]_vars
    /\ [][pc = "overlap" /\ chunk_idx \in 2..Len(chunks) =>
              LET pre == StrJoin(PrependedWords(chunk_idx)) IN
              /\ Len(new_chunks) = chunk_idx - 1
              /\ Len(pre) <= overlap
              /\ new_chunks' = Append(new_chunks,
                                      StrStrip(pre \o <<" ">> \o chunks[chunk_idx]))]_vars

\* the pass is over; one chunk took two words from a previous chunk that had
\* itself been extended, another took only some of the words of the previous one
C13_Witness ==
    /\ pc = "overlap"
    /\ chunk_idx > Len(chunks)
    /\ \E k \in 2..Len(chunks) :
           /\ new_chunks[k - 1] # chunks[k - 1]
           /\ Len(PrependedWords(k)) = 2
           /\ new_chunks[k] = StrJoin(PrependedWords(k)) \o <<" ">> \o chunks[k]
    /\ \E k \in 2..Len(chunks) :
           /\ Len(PrependedWords(k)) >= 1
           /\ Len(PrependedWords(k)) < Len(StrSplit(new_chunks[k - 1]))

-----------------------------------------------------------------------------
(* The similarity score of merge_entities, lines 33-36, taken on a pair of  *)
(* normalized names in both argument orders.                                 *)

NameAlphabet == {"a", "b", "c"}

\* normalized names: what normalize_name returns for short names
NormNames == {normalize_name(n) : n \in SeqsUpTo(NameAlphabet, MaxNameLen)}

\* line 35 with sim_a the incoming name and sim_b the canonical one
SimScore ==
    /\ pc = "sim"
    /\ sim_ab' = ratio(sim_a, sim_b)
    /\ pc' = "sim_swapped"
    /\ UNCHANGED <<sim_a, sim_b, sim_ba>>
    /\ UNCHANGED <<mergeVars, fin_relationships, remapVars, refVars, chunkVars>>

\* line 35 with sim_b the incoming name and sim_a the canonical one
SimScoreSwapped ==
    /\ pc = "sim_swapped"
    /\ sim_ba' = ratio(sim_b, sim_a)
    /\ pc' = "compared"
    /\ UNCHANGED <<sim_a, sim_b, sim_ab>>
    /\ UNCHANGED <<mergeVars, fin_relationships, remapVars, refVars, chunkVars>>

InitSim ==
    /\ sim_a \in NormNames
    /\ sim_b \in NormNames
    /\ sim_ab = <<>>
    /\ sim_ba = <<>>
    /\ ResolutionIdle /\ RefIdle /\ ChunkIdle
    /\ pc = "sim"

NextSim == SimScore \/ SimScoreSwapped

SpecSim == InitSim /\ [][NextSim]_vars

\* C14 as stated: the score of a pair of normalized names is the same in both
\* argument orders, and so is the outcome of the test score >= sim_threshold.
C14_SimilaritySymmetric ==
    pc = "compared" =>
        /\ sim_ab = sim_ba
        /\ \A t \in ThresholdPool : FracGE(sim_ab, t) <=> FracGE(sim_ba, t)

-----------------------------------------------------------------------------
(* finalize_entities_and_relationships of src/src/resolve_entities.py, run  *)
(* on the arguments the one of src/src/dedupe_entities.py has just been run *)
(* on.                                                                       *)

\* resolve_entities.py lines 21-33: the scan with its two breaks; index of the
\* canonical matched, 0 when the loop ends with matched = None
RECURSIVE ResolveScan(_, _, _, _)
ResolveScan(ent_name_norm, canons, j, thr) ==
    IF j > Len(canons) THEN 0
    ELSE LET canon_name_norm == normalize_name(canons[j].name)
             canon_aliases == Aliases(canons[j])
         IN  IF \/ ent_name_norm = canon_name_norm
                \/ \E a \in 1..Len(canon_aliases) :
                       ent_name_norm = normalize_name(canon_aliases[a])
                \/ FracGE(ratio(ent_name_norm, canon_name_norm), thr)
             THEN j
             ELSE ResolveScan(ent_name_norm, canons, j + 1, thr)

\* resolve_entities.py lines 36-39
ResolvePreserveAliases(canon, ent) ==
    LET c == IF "aliases" \notin DOMAIN canon THEN Put(canon, "aliases", <<>>) ELSE canon IN
    IF ent.name # c.name /\ ent.name \notin Range(c.aliases)
    THEN [c EXCEPT !.aliases = Append(@, ent.name)]
    ELSE c

\* resolve_entities.py line 45
ResolveNewCanon(ent) == [id |-> ent.id, name |-> ent.name, aliases |-> <<>>]

\* resolve_entities.py line 73: the condition of the list comprehension
ResolveIsValidRel(rel, valid) == rel.source \in valid /\ rel.target \in valid

\* resolve_entities.py line 73
RECURSIVE ResolveFilter(_, _)
ResolveFilter(rels, valid) ==
    IF rels = <<>> THEN <<>>
    ELSE (IF ResolveIsValidRel(Head(rels), valid) THEN <<Head(rels)>> ELSE <<>>)
         \o ResolveFilter(Tail(rels), valid)

\* resolve_entities.py lines 59-62
ResolveNewRel(rel, src, tgt) ==
    [source |-> src, relation |-> rel.relation, target |-> tgt,
     evidence_span |-> IF "evidence_span" \in DOMAIN rel THEN rel.evidence_span ELSE ""]

\* resolve_entities.py lines 68-71 and 14-15: the result of dedupe_entities is
\* kept, resolve_entities starts on the same entities and relationships
ResolveStart ==
    /\ pc = "remapped"
    /\ ref_entities' = canonical_entities
    /\ ref_relationships' = resolved_relationships
    /\ entities' = batch
    /\ canonical_entities' = <<>>
    /\ resolved_map' = EmptyDict
    /\ idx' = 1
    /\ matched' = 0
    /\ relationships' = <<>>
    /\ rel_idx' = 1
    /\ resolved_relationships' = <<>>
    /\ seen' = {}
    /\ pc' = "r_scan"
    /\ UNCHANGED <<batch, sim_threshold, pass, first_canonical, fin_relationships>>
    /\ UNCHANGED <<chunkVars, simVars>>

\* resolve_entities.py lines 17-33
ResolveScanMatch ==
    /\ pc = "r_scan"
    /\ idx <= Len(entities)
    /\ matched' = ResolveScan(normalize_name(entities[idx].name),
                              canonical_entities, 1, sim_threshold)
    /\ pc' = IF matched' # 0 THEN "r_matched" ELSE "r_unmatched"
    /\ UNCHANGED <<batch, entities, sim_threshold, canonical_entities, resolved_map,
                   idx, pass, first_canonical, fin_relationships>>
    /\ UNCHANGED <<remapVars, extraVars>>

\* resolve_entities.py lines 35-42
ResolveMergeInto ==
    /\ pc = "r_matched"
    /\ LET ent == entities[idx]
           m == ResolvePreserveAliases(canonical_entities[matched], ent)
       IN  /\ canonical_entities' = [canonical_entities EXCEPT ![matched] = m]
           /\ resolved_map' = Put(resolved_map, ent.id, m.id)
    /\ idx' = idx + 1
    /\ matched' = 0
    /\ pc' = "r_scan"
    /\ UNCHANGED <<batch, entities, sim_threshold, pass, first_canonical, fin_relationships>>
    /\ UNCHANGED <<remapVars, extraVars>>

\* resolve_entities.py lines 43-47
ResolveNewCanonical ==
    /\ pc = "r_unmatched"
    /\ LET new_canon == ResolveNewCanon(entities[idx]) IN
           /\ canonical_entities' = Append(canonical_entities, new_canon)
           /\ resolved_map' = Put(resolved_map, entities[idx].id, new_canon.id)
    /\ idx' = idx + 1
    /\ pc' = "r_scan"
    /\ UNCHANGED <<batch, entities, sim_threshold, matched, pass, first_canonical,
                   fin_relationships>>
    /\ UNCHANGED <<remapVars, extraVars>>

\* resolve_entities.py lines 49 and 72-74: merge_entities returns, the
\* relationships are filtered and remap_relationships is called
ResolveFilterStep ==
    /\ pc = "r_scan"
    /\ idx > Len(entities)
    /\ relationships' = ResolveFilter(fin_relationships, valid_ids(canonical_entities))
    /\ rel_idx' = 1
    /\ resolved_relationships' = <<>>
    /\ seen' = {}
    /\ pc' = "r_remap"
    /\ UNCHANGED <<mergeVars, fin_relationships, extraVars>>

\* resolve_entities.py lines 54-63, a relationship whose key is new
ResolveRemapKeep ==
    /\ pc = "r_remap"
    /\ rel_idx <= Len(relationships)
    /\ LET rel == relationships[rel_idx]
           src == MapGet(resolved_map, rel.source).value
           tgt == MapGet(resolved_map, rel.target).value
       IN  /\ <<src, rel.relation, tgt>> \notin seen
           /\ resolved_relationships' = Append(resolved_relationships, ResolveNewRel(rel, src, tgt))
           /\ seen' = seen \cup {<<src, rel.relation, tgt>>}
    /\ rel_idx' = rel_idx + 1
    /\ UNCHANGED <<relationships, pc>>
    /\ UNCHANGED <<mergeVars, fin_relationships, extraVars>>

\* resolve_entities.py lines 54-58 and 64-65, a relationship whose key was seen
ResolveRemapDuplicate ==
    /\ pc = "r_remap"
    /\ rel_idx <= Len(relationships)
    /\ LET rel == relationships[rel_idx]
           src == MapGet(resolved_map, rel.source).value
           tgt == MapGet(resolved_map, rel.target).value
       IN  <<src, rel.relation, tgt>> \in seen
    /\ rel_idx' = rel_idx + 1
    /\ UNCHANGED <<relationships, resolved_relationships, seen, pc>>
    /\ UNCHANGED <<mergeVars, fin_relationships, extraVars>>

\* resolve_entities.py lines 66 and 75
ResolveReturn ==
    /\ pc = "r_remap"
    /\ rel_idx > Len(relationships)
    /\ pc' = "r_remapped"
    /\ UNCHANGED <<mergeVars, remapVars, fin_relationships, extraVars>>

\* entities that carry only id and name: those of the example of lines 79-83
NamePool == {[name |-> Watson], [name |-> DrWatson], [name |-> John]}

ExampleEntities == WithIds(<<[name |-> Watson], [name |-> DrWatson], [name |-> John]>>)

ExampleRelationships ==
    <<Rel(2, "works_with", 3, "text1"), Rel(1, "works_with", 3, "text2")>>

InitCompare ==
    /\ batch \in Batches(NamePool, MaxFinEntities)
    /\ entities = batch
    /\ sim_threshold = DefaultThreshold
    /\ canonical_entities = <<>>
    /\ resolved_map = EmptyDict
    /\ idx = 1
    /\ matched = 0
    /\ pass = 1
    /\ first_canonical = <<>>
    /\ fin_relationships \in SeqsUpTo(FinRelPool, MaxFinRels)
    /\ relationships = <<>>
    /\ rel_idx = 1
    /\ resolved_relationships = <<>>
    /\ seen = {}
    /\ pc = "scan"
    /\ RefIdle /\ ChunkIdle /\ SimIdle

NextCompare ==
    \/ NextFinalize
    \/ ResolveStart
    \/ ResolveScanMatch \/ ResolveMergeInto \/ ResolveNewCanonical
    \/ ResolveFilterStep
    \/ ResolveRemapKeep \/ ResolveRemapDuplicate \/ ResolveReturn

SpecCompare == InitCompare /\ [][NextCompare]_vars

\* both implementations return the same list of canonical entities
SameCanonicals == pc = "r_remapped" => canonical_entities = ref_entities

\* C15 as stated: on entities that carry only id and name, resolve_entities.py
\* returns the canonical entities and the relationships dedupe_entities.py
\* returns; the example of its __main__ block yields the single relationship
\* (1, works_with, 3) with evidence_span text1.
C15_FinalizeAgree ==
    pc = "r_remapped" =>
        /\ canonical_entities = ref_entities
        /\ resolved_relationships = ref_relationships
        /\ (batch = ExampleEntities /\ fin_relationships = ExampleRelationships) =>
               resolved_relationships = <<Rel(1, "works_with", 3, "text1")>>

====
